---- MODULE Spec2Model ----
(***************************************************************************)
(* Model of src/vs/workbench/parts/preferences/browser/settingsEditor2.ts: *)
(* the SettingsEditor2 view (entry derivation, render pipeline, edit       *)
(* callback, telemetry buffer) and the SettingItemRenderer (templates and  *)
(* their disposable controls).                                             *)
(*                                                                         *)
(* Three specifications share the variables:                               *)
(*   Spec          the render pipeline of SettingsEditor2                  *)
(*   SpecRenderer  SettingItemRenderer templates, controls and the edit    *)
(*                 callback their change events reach                      *)
(*   SpecTelemetry reportFilteringUsed over bounded buffers                *)
(***************************************************************************)
EXTENDS Integers, Sequences, FiniteSets, TLC

VARIABLES
    input,                       \* BaseEditor.input: NoInput or the attached input
    defaultSettingsEditorModel,  \* NoModel until a resolve-then-assign step
    settingsTarget,              \* settingsTargetsWidget.settingsTarget
    showConfiguredSettingsOnly,  \* the "show configured only" flag
    config,                      \* the configuration store: key -> scope values
    pendingResolves,             \* input.resolve() promises not yet settled
    settingsList,                \* elements of this.settingsList
    navList,                     \* elements of this.navList
    template,                    \* the ISettingItemTemplate of a list row
    disposables,                 \* every disposable created for the template
    gesture,                     \* the user gesture the last step handled
    fired,                       \* change events fired by the last step
    storeCalls,                  \* updateValue calls issued by the last step
    outcome,                     \* how the store settled that updateValue
    notifications,               \* notificationService calls of the last step
    latestEmptyFilters,          \* this.latestEmptyFilters
    telemetryLog,                \* payloads the last step gave to publicLog
    lastReport,                  \* argument and buffer of the last report
    measured                     \* getHeight calls: what each made and left

editorVars == <<input, defaultSettingsEditorModel, settingsTarget,
                showConfiguredSettingsOnly, config, pendingResolves,
                settingsList, navList>>
logVars == <<gesture, fired, storeCalls, outcome, notifications>>
rendererVars == <<template, disposables, logVars>>
telemetryVars == <<latestEmptyFilters, telemetryLog, lastReport>>
delegateVars == <<measured>>
vars == <<editorVars, rendererVars, telemetryVars, delegateVars>>

----------------------------------------------------------------------------
(* Bounds *)

MaxPending == 2       \* input.resolve() promises in flight at once
MaxRenders == 2       \* renderElement calls on one template
MaxBuffer == 3        \* strings in latestEmptyFilters
MaxMeasures == 2      \* getHeight calls

----------------------------------------------------------------------------
(* JavaScript values, tagged by typeof *)

Undefined == [t |-> "undefined"]
Bool(b) == [t |-> "boolean", b |-> b]
Str(s) == [t |-> "string", s |-> s]
Num(n) == [t |-> "number", n |-> n]
NaN == [t |-> "number", nan |-> TRUE]
Arr(a) == [t |-> "object", a |-> a]

NoInput == "null"
NoModel == [t |-> "undefined"]

SETTINGS_ENTRY_TEMPLATE_ID == "settings.entry.template"
SETTINGS_NAV_TEMPLATE_ID == "settings.nav.template"
SETTINGS_GROUP_ENTRY_TEMPLATE_ID == "settings.group.template"

USER == "USER"
WORKSPACE == "WORKSPACE"
Targets == {USER, WORKSPACE}

----------------------------------------------------------------------------
(* parseInt(string): leading blanks skipped, an optional sign, then the    *)
(* longest run of decimal digits; NaN when there is no digit. Strings are  *)
(* sequences of one-character strings.                                     *)

Digits == <<"0", "1", "2", "3", "4", "5", "6", "7", "8", "9">>

IsDigit(c) == \E d \in 1..10 : Digits[d] = c

DigitValue(c) == (CHOOSE d \in 1..10 : Digits[d] = c) - 1

RECURSIVE SkipBlanks(_)
SkipBlanks(cs) ==
    IF cs # <<>> /\ Head(cs) = " " THEN SkipBlanks(Tail(cs)) ELSE cs

RECURSIVE DigitRun(_, _, _)
DigitRun(cs, acc, seen) ==
    IF cs # <<>> /\ IsDigit(Head(cs))
    THEN DigitRun(Tail(cs), acc * 10 + DigitValue(Head(cs)), TRUE)
    ELSE [value |-> acc, seen |-> seen]

ParseInt(cs) ==
    LET body == SkipBlanks(cs)
        neg == body # <<>> /\ Head(body) = "-"
        signed == body # <<>> /\ Head(body) \in {"-", "+"}
        run == DigitRun(IF signed THEN Tail(body) ELSE body, 0, FALSE)
    IN  IF ~run.seen THEN NaN
        ELSE Num(IF neg THEN 0 - run.value ELSE run.value)

RECURSIVE ToDecimal(_)
ToDecimal(n) ==
    IF n < 10 THEN <<Digits[n + 1]>>
    ELSE ToDecimal(n \div 10) \o <<Digits[(n % 10) + 1]>>

----------------------------------------------------------------------------
(* The settings model the input resolves to (DefaultSettingsEditorModel):  *)
(* groups of sections of settings.                                         *)

BoolSetting == [key |-> "editor.wrap", description |-> <<"Wrap lines">>,
                type |-> "boolean", enum |-> Undefined,
                default |-> Bool(FALSE)]
EnumSetting == [key |-> "editor.eol", description |-> <<"End of line", "x or y">>,
                type |-> "string", enum |-> <<"x", "y">>,
                default |-> Str("x")]
NumberSetting == [key |-> "files.max", description |-> <<"Max files">>,
                  type |-> "number", enum |-> Undefined,
                  default |-> Num(1)]

SettingsGroups ==
    << [id |-> "editor", title |-> "Editor",
        sections |-> << [settings |-> <<BoolSetting>>],
                        [settings |-> <<EnumSetting>>] >>],
       [id |-> "files", title |-> "Files",
        sections |-> << [settings |-> <<NumberSetting>>] >>] >>

ResolvedModel == [settingsGroups |-> SettingsGroups]

ModelSettings == {BoolSetting, EnumSetting, NumberSetting}
Keys == {s.key : s \in ModelSettings}
SettingOf(key) == CHOOSE s \in ModelSettings : s.key = key

(* The value a scope of the store holds for a key when it holds one. *)
ScopeValue(key, scope) ==
    CASE key = "editor.wrap" -> IF scope = "user" THEN Bool(TRUE) ELSE Bool(FALSE)
      [] key = "editor.eol" -> IF scope = "user" THEN Str("y") ELSE Str("z")
      [] key = "files.max" -> IF scope = "user" THEN Num(2) ELSE Num(3)

Scopes == {"user", "workspace"}

(* configurationService.inspect(key) *)
Inspect(cfg, key) ==
    [default |-> SettingOf(key).default,
     user |-> cfg[key].user,
     workspace |-> cfg[key].workspace]

----------------------------------------------------------------------------
(* SettingsEditor2.settingToEntry *)

RECURSIVE JoinLines(_)
JoinLines(lines) ==
    IF lines = <<>> THEN ""
    ELSE IF Len(lines) = 1 THEN lines[1]
    ELSE lines[1] \o "\n" \o JoinLines(Tail(lines))

TargetSelector(target) == IF target = USER THEN "user" ELSE "workspace"

(* Mutant: the user scope decides, whatever the target. *)
IsConfiguredUserOnly(inspected, targetSelector) ==
    inspected.user # Undefined

IsConfigured(inspected, targetSelector) ==
    inspected[targetSelector] # Undefined

DisplayValue(inspected, targetSelector) ==
    IF IsConfigured(inspected, targetSelector)
    THEN inspected[targetSelector] ELSE inspected.default

OverriddenScopeList(inspected, targetSelector) ==
    (IF targetSelector = "user" /\ inspected.workspace # Undefined
     THEN <<"Workspace">> ELSE <<>>)
    \o (IF targetSelector = "workspace" /\ inspected.user # Undefined
        THEN <<"User">> ELSE <<>>)

SettingToEntry(s, inspected, target) ==
    LET targetSelector == TargetSelector(target)
    IN  [id |-> s.key,
         key |-> s.key,
         value |-> DisplayValue(inspected, targetSelector),
         isConfigured |-> IsConfigured(inspected, targetSelector),
         overriddenScopeList |-> OverriddenScopeList(inspected, targetSelector),
         description |-> JoinLines(s.description),
         enum |-> s.enum,
         type |-> s.type,
         templateId |-> SETTINGS_ENTRY_TEMPLATE_ID]

----------------------------------------------------------------------------
(* SettingsEditor2.renderEntries *)

RECURSIVE FlattenSections(_)
FlattenSections(sections) ==
    IF sections = <<>> THEN <<>>
    ELSE sections[1].settings \o FlattenSections(Tail(sections))

(* Mutant: the filter flag is ignored. *)
KeepEntryAlways(flag, entry) == TRUE

KeepEntry(flag, entry) == ~flag \/ (flag /\ entry.isConfigured)

RECURSIVE GroupEntries(_, _, _, _)
GroupEntries(settings, cfg, target, flag) ==
    IF settings = <<>> THEN <<>>
    ELSE LET entry == SettingToEntry(settings[1],
                                     Inspect(cfg, settings[1].key), target)
         IN  (IF KeepEntry(flag, entry) THEN <<entry>> ELSE <<>>)
             \o GroupEntries(Tail(settings), cfg, target, flag)

NavEntry(group, groupIdx) ==
    [id |-> group.id,
     index |-> ParseInt(groupIdx),
     title |-> group.title,
     templateId |-> SETTINGS_NAV_TEMPLATE_ID]

GroupTitleEntry(group) ==
    [id |-> group.id,
     templateId |-> SETTINGS_GROUP_ENTRY_TEMPLATE_ID,
     title |-> group.title]

GroupHasEntries(groupEntries) == Len(groupEntries) # 0

(* The loop over settingsGroups from index i on: [entries, navEntries]. *)
RECURSIVE BuildEntries(_, _, _, _, _)
BuildEntries(groups, i, cfg, target, flag) ==
    IF i > Len(groups) THEN [entries |-> <<>>, navEntries |-> <<>>]
    ELSE LET group == groups[i]
             groupEntries == GroupEntries(FlattenSections(group.sections),
                                          cfg, target, flag)
             rest == BuildEntries(groups, i + 1, cfg, target, flag)
         IN  IF GroupHasEntries(groupEntries)
             THEN [entries |-> <<GroupTitleEntry(group)>> \o groupEntries
                               \o rest.entries,
                   navEntries |-> <<NavEntry(group, ToDecimal(i - 1))>>
                                  \o rest.navEntries]
             ELSE rest

(* Mutant: a splice that inserts without deleting. *)
SpliceNoDelete(list, start, deleteCount, elements) ==
    SubSeq(list, 1, start) \o elements \o SubSeq(list, start + 1, Len(list))

(* List.splice(start, deleteCount, elements) *)
Splice(list, start, deleteCount, elements) ==
    SubSeq(list, 1, start) \o elements
    \o SubSeq(list, start + deleteCount + 1, Len(list))

ModelIsSet(mdl) == mdl # NoModel

(* Mutant: renderEntries without the guard on the model, building from    *)
(* the groups the input will resolve to.                                   *)
RenderEntriesUnguarded(mdl, cfg, target, flag) ==
    LET built == BuildEntries(SettingsGroups, 1, cfg, target, flag)
    IN  /\ settingsList' = built.entries
        /\ navList' = built.navEntries

(* renderEntries run with the model, target, flag and store as they are    *)
(* when it is called.                                                      *)
RenderEntries(mdl, cfg, target, flag) ==
    IF ModelIsSet(mdl)
    THEN LET built == BuildEntries(mdl.settingsGroups, 1, cfg, target, flag)
         IN  /\ settingsList' = Splice(settingsList, 0, Len(settingsList),
                                       built.entries)
             /\ navList' = Splice(navList, 0, Len(navList), built.navEntries)
    ELSE UNCHANGED <<settingsList, navList>>

(* Mutant: render() that starts no resolution. *)
RenderNever(inp) == UNCHANGED pendingResolves

(* SettingsEditor2.render: with an input, one more resolution to await. *)
Render(inp) ==
    IF inp # NoInput
    THEN /\ pendingResolves < MaxPending
         /\ pendingResolves' = pendingResolves + 1
    ELSE UNCHANGED pendingResolves

----------------------------------------------------------------------------
(* Actions of the render pipeline *)

NoConfig == [k \in Keys |-> [user |-> Undefined, workspace |-> Undefined]]

(* No template yet: renderTemplate has not been called. *)
NoTemplate == [state |-> "none", toDispose |-> <<>>, renders |-> 0,
               entry |-> Undefined, valueText |-> ""]

(* No gesture is handled in the step: the record of the last one is gone. *)
ClearLog ==
    /\ gesture' = Undefined
    /\ fired' = <<>>
    /\ storeCalls' = <<>>
    /\ outcome' = Undefined
    /\ notifications' = <<>>

InitEditor ==
    /\ input = NoInput
    /\ defaultSettingsEditorModel = NoModel
    /\ settingsTarget = USER
    /\ showConfiguredSettingsOnly = FALSE
    /\ config = NoConfig
    /\ pendingResolves = 0
    /\ settingsList = <<>>
    /\ navList = <<>>

InitRenderer ==
    /\ template = NoTemplate
    /\ disposables = <<>>
    /\ gesture = Undefined
    /\ fired = <<>>
    /\ storeCalls = <<>>
    /\ outcome = Undefined
    /\ notifications = <<>>

InitTelemetry ==
    /\ latestEmptyFilters = <<>>
    /\ telemetryLog = <<>>
    /\ lastReport = Undefined

InitDelegate == measured = <<>>

Init == InitEditor /\ InitRenderer /\ InitTelemetry /\ InitDelegate

(* setInput: the input is attached, and rendered unless it matches the old *)
SetInput ==
    /\ input' = "settings"
    /\ Render(IF input = "settings" THEN NoInput ELSE "settings")
    /\ UNCHANGED <<defaultSettingsEditorModel, settingsTarget,
                   showConfiguredSettingsOnly, config, settingsList, navList>>
    /\ ClearLog
    /\ UNCHANGED <<template, disposables, telemetryVars, delegateVars>>

ClearInput ==
    /\ input # NoInput
    /\ input' = NoInput
    /\ UNCHANGED <<defaultSettingsEditorModel, settingsTarget,
                   showConfiguredSettingsOnly, config, pendingResolves,
                   settingsList, navList>>
    /\ ClearLog
    /\ UNCHANGED <<template, disposables, telemetryVars, delegateVars>>

(* layout: of what it does, the sizes aside, render() *)
Layout ==
    /\ Render(input)
    /\ UNCHANGED <<input, defaultSettingsEditorModel, settingsTarget,
                   showConfiguredSettingsOnly, config, settingsList, navList>>
    /\ ClearLog
    /\ UNCHANGED <<template, disposables, telemetryVars, delegateVars>>

(* The store changes one scope of one key and notifies its listeners; the  *)
(* listener registered in the constructor calls render().                  *)
OnDidChangeConfiguration(key, scope, value) ==
    /\ config[key][scope] # value
    /\ config' = [config EXCEPT ![key][scope] = value]
    /\ Render(input)
    /\ UNCHANGED <<input, defaultSettingsEditorModel, settingsTarget,
                   showConfiguredSettingsOnly, settingsList, navList>>
    /\ ClearLog
    /\ UNCHANGED <<template, disposables, telemetryVars, delegateVars>>

(* settingsTargetsWidget.onDidTargetChange: renderEntries at once. *)
OnDidTargetChange(target) ==
    /\ target # settingsTarget
    /\ settingsTarget' = target
    /\ RenderEntries(defaultSettingsEditorModel, config, target,
                     showConfiguredSettingsOnly)
    /\ UNCHANGED <<input, defaultSettingsEditorModel,
                   showConfiguredSettingsOnly, config, pendingResolves>>
    /\ ClearLog
    /\ UNCHANGED <<template, disposables, telemetryVars, delegateVars>>

(* configuredOnlyCheckbox.onChange *)
OnToggleConfiguredOnly ==
    /\ showConfiguredSettingsOnly' = ~showConfiguredSettingsOnly
    /\ Render(input)
    /\ UNCHANGED <<input, defaultSettingsEditorModel, settingsTarget, config,
                   settingsList, navList>>
    /\ ClearLog
    /\ UNCHANGED <<template, disposables, telemetryVars, delegateVars>>

(* input.resolve() fulfils: assign the model, then renderEntries. A        *)
(* resolution that rejects runs neither step: it stays pending for good.   *)
ResolveFulfilled ==
    /\ pendingResolves > 0
    /\ pendingResolves' = pendingResolves - 1
    /\ defaultSettingsEditorModel' = ResolvedModel
    /\ RenderEntries(ResolvedModel, config, settingsTarget,
                     showConfiguredSettingsOnly)
    /\ UNCHANGED <<input, settingsTarget, showConfiguredSettingsOnly, config>>
    /\ ClearLog
    /\ UNCHANGED <<template, disposables, telemetryVars, delegateVars>>

Next ==
    \/ SetInput
    \/ ClearInput
    \/ Layout
    \/ \E key \in Keys, scope \in Scopes :
          \E value \in {Undefined, ScopeValue(key, scope)} :
             OnDidChangeConfiguration(key, scope, value)
    \/ \E target \in Targets : OnDidTargetChange(target)
    \/ OnToggleConfiguredOnly
    \/ ResolveFulfilled

Spec == Init /\ [][Next]_vars

----------------------------------------------------------------------------
(* Properties of the render pipeline *)

(* A step in which renderEntries ran with a model: a target change with    *)
(* the model set, or a fulfilled resolution.                               *)
RenderPass ==
    /\ defaultSettingsEditorModel' # NoModel
    /\ settingsTarget' # settingsTarget \/ pendingResolves' < pendingResolves

IsRow(e) == e.templateId = SETTINGS_ENTRY_TEMPLATE_ID
IsTitle(e) == e.templateId = SETTINGS_GROUP_ENTRY_TEMPLATE_ID

(* The store's value for a key at the scope the target widget selects. *)
ValueAtTarget(cfg, key, target) ==
    IF target = USER THEN cfg[key].user ELSE cfg[key].workspace

RowShowsTargetScope(row, cfg, target) ==
    LET atTarget == ValueAtTarget(cfg, row.key, target)
    IN  /\ row.isConfigured <=> (atTarget # Undefined)
        /\ row.value = IF atTarget # Undefined THEN atTarget
                       ELSE SettingOf(row.key).default

(* C1: every Setting Row a renderEntries pass puts in the settings list    *)
(* has isConfigured true exactly when the store holds a value for its key  *)
(* at the scope selected by the target widget, and shows that value when   *)
(* there is one and the setting's default otherwise.                       *)
C1_EntryShowsTargetScope ==
    [][RenderPass =>
         \A i \in 1..Len(settingsList') :
            IsRow(settingsList'[i]) =>
               RowShowsTargetScope(settingsList'[i], config', settingsTarget')]_vars

RowOf(list, key) == CHOOSE i \in 1..Len(list) : IsRow(list[i]) /\ list[i].key = key

HasRow(list, key) == \E i \in 1..Len(list) : IsRow(list[i]) /\ list[i].key = key

(* A setting configured only at workspace scope, shown under target        *)
(* workspace with the workspace value and isConfigured true.               *)
C1_Witness ==
    /\ settingsTarget = WORKSPACE
    /\ config["editor.eol"].user = Undefined
    /\ config["editor.eol"].workspace = Str("z")
    /\ HasRow(settingsList, "editor.eol")
    /\ settingsList[RowOf(settingsList, "editor.eol")].value = Str("z")
    /\ settingsList[RowOf(settingsList, "editor.eol")].isConfigured

(* The same setting under target user: the default, isConfigured false. *)
C1_WitnessUser ==
    /\ settingsTarget = USER
    /\ config["editor.eol"].user = Undefined
    /\ config["editor.eol"].workspace = Str("z")
    /\ HasRow(settingsList, "editor.eol")
    /\ settingsList[RowOf(settingsList, "editor.eol")].value = Str("x")
    /\ ~settingsList[RowOf(settingsList, "editor.eol")].isConfigured

(* The model's settings by group, in model order. *)
GroupOrder == <<"editor", "files">>
KeyOrder == <<"editor.wrap", "editor.eol", "files.max">>
GroupOfKey(key) == IF key = "files.max" THEN "files" ELSE "editor"
TitleOfGroup(id) == IF id = "files" THEN "Files" ELSE "Editor"

RowsOfGroup(list, id) ==
    {i \in 1..Len(list) : IsRow(list[i]) /\ GroupOfKey(list[i].key) = id}

FilterRespected(list, nav, flag) ==
    /\ flag => \A i \in 1..Len(list) : IsRow(list[i]) => list[i].isConfigured
    /\ \A i \in 1..Len(list) :
          IsTitle(list[i]) => RowsOfGroup(list, list[i].id) # {}
    /\ \A j \in 1..Len(nav) : RowsOfGroup(list, nav[j].id) # {}
    /\ ~flag => \A k \in Keys :
                   Cardinality({i \in 1..Len(list) :
                                   IsRow(list[i]) /\ list[i].key = k}) = 1

(* C4: after a renderEntries pass with the filter on, the settings list    *)
(* holds no Setting Row with isConfigured false; a Group Title and a Nav   *)
(* Category are present only for a group one of whose rows is in the list; *)
(* with the filter off every setting of the model has exactly one row.     *)
C4_FilterRespected ==
    [][RenderPass =>
         FilterRespected(settingsList', navList', showConfiguredSettingsOnly')]_vars

(* The filter is on, the list is up to date, a group has lost all its rows *)
(* and its title, another keeps one row and drops the other.               *)
C4_Witness ==
    /\ showConfiguredSettingsOnly
    /\ input # NoInput /\ pendingResolves = 0
    /\ ValueAtTarget(config, "files.max", settingsTarget) = Undefined
    /\ ValueAtTarget(config, "editor.wrap", settingsTarget) = Undefined
    /\ ValueAtTarget(config, "editor.eol", settingsTarget) # Undefined
    /\ Len(settingsList) = 2
    /\ Len(navList) = 1

(* What renderEntries builds from the state as it is now. *)
DerivedEntries ==
    BuildEntries(SettingsGroups, 1, config, settingsTarget,
                 showConfiguredSettingsOnly)

(* C5: while an input is attached, once no model resolution is pending the *)
(* settings list and the nav list hold exactly the entries derived from    *)
(* the current store, target and filter flag, whatever the order in which  *)
(* changes arrived and earlier resolutions completed.                      *)
C5_LastSpliceWins ==
    (input # NoInput /\ pendingResolves = 0) =>
       /\ settingsList = DerivedEntries.entries
       /\ navList = DerivedEntries.navEntries

C5_Witness ==
    /\ input # NoInput /\ pendingResolves = 0
    /\ showConfiguredSettingsOnly
    /\ settingsTarget = WORKSPACE
    /\ config["editor.wrap"].workspace # Undefined
    /\ config["files.max"].user # Undefined
    /\ Len(settingsList) = 2

(* C6: while defaultSettingsEditorModel is unset both lists are empty. *)
C6_EmptyUntilResolved ==
    defaultSettingsEditorModel = NoModel =>
       settingsList = <<>> /\ navList = <<>>

(* The model is still unset after a target change, a filter toggle and a   *)
(* configuration change, with a resolution pending.                        *)
C6_Witness ==
    /\ defaultSettingsEditorModel = NoModel
    /\ settingsTarget = WORKSPACE
    /\ showConfiguredSettingsOnly
    /\ config # NoConfig
    /\ pendingResolves > 0
    /\ settingsList = <<>> /\ navList = <<>>

Retained(cfg, target, flag, key) ==
    ~flag \/ ValueAtTarget(cfg, key, target) # Undefined

PrecedingTitle(list, i) ==
    LET titles == {j \in 1..i : IsTitle(list[j])}
    IN  IF titles = {} THEN Undefined
        ELSE list[CHOOSE j \in titles : \A m \in titles : m <= j]

LayoutAsModel(list, nav, cfg, target, flag) ==
    LET KeptKey(k) == Retained(cfg, target, flag, k)
        KeptGroup(g) == \E n \in 1..Len(KeyOrder) :
                           GroupOfKey(KeyOrder[n]) = g /\ KeptKey(KeyOrder[n])
        rows == SelectSeq(list, IsRow)
        titles == SelectSeq(list, IsTitle)
    IN  /\ Len(rows) + Len(titles) = Len(list)
        /\ [n \in 1..Len(rows) |-> rows[n].key] = SelectSeq(KeyOrder, KeptKey)
        /\ [n \in 1..Len(titles) |-> titles[n].id] = SelectSeq(GroupOrder, KeptGroup)
        /\ \A n \in 1..Len(titles) : titles[n].title = TitleOfGroup(titles[n].id)
        /\ \A i \in 1..Len(list) :
              IsRow(list[i]) =>
                 /\ PrecedingTitle(list, i) # Undefined
                 /\ PrecedingTitle(list, i).id = GroupOfKey(list[i].key)
        /\ Len(nav) = Len(titles)
        /\ \A n \in 1..Len(nav) :
              /\ nav[n].templateId = SETTINGS_NAV_TEMPLATE_ID
              /\ nav[n].id = titles[n].id
              /\ nav[n].title = titles[n].title

(* C10: after a renderEntries pass with a loaded model the settings list   *)
(* is exactly, for each group with a retained row and in model order, the  *)
(* group's title followed by its retained rows in section/setting order,   *)
(* and the nav list is exactly one category per such group, same order, id *)
(* and title; nothing of the lists' earlier content remains.               *)
C10_WholeListReplaced ==
    [][RenderPass =>
         LayoutAsModel(settingsList', navList', config', settingsTarget',
                       showConfiguredSettingsOnly')]_vars

(* The lists hold only the second group: the first group's entries of an   *)
(* earlier content are gone.                                               *)
C10_Witness ==
    /\ defaultSettingsEditorModel # NoModel
    /\ Len(settingsList) = 2
    /\ IsTitle(settingsList[1]) /\ settingsList[1].id = "files"
    /\ IsRow(settingsList[2]) /\ settingsList[2].key = "files.max"
    /\ Len(navList) = 1
    /\ navList[1].id = "files" /\ navList[1].index = Num(1)

----------------------------------------------------------------------------
(* SettingItemRenderer: one template of the settings list, the disposables *)
(* created for it, and the gestures that reach its controls.               *)

TextSetting == [key |-> "files.name", description |-> <<"File name">>,
                type |-> "string", enum |-> Undefined,
                default |-> Str("a")]
ListSetting == [key |-> "files.exclude", description |-> <<"Excluded">>,
                type |-> "array", enum |-> Undefined,
                default |-> Arr(<<>>)]

(* Settings whose type and enum do not go together as in the settings     *)
(* above: an enum on a number, on a boolean and on an array, and a type    *)
(* that is a list of types (an array, which equals no type name).          *)
NumberEnumSetting == [key |-> "files.level", description |-> <<"Level">>,
                      type |-> "number", enum |-> <<1, 2>>,
                      default |-> Num(1)]
BoolEnumSetting == [key |-> "files.flag", description |-> <<"Flag">>,
                    type |-> "boolean", enum |-> <<TRUE, FALSE>>,
                    default |-> Bool(TRUE)]
ListEnumSetting == [key |-> "files.kinds", description |-> <<"Kinds">>,
                    type |-> "array", enum |-> <<"x", "y">>,
                    default |-> Arr(<<>>)]
TypeListSetting == [key |-> "files.encoding", description |-> <<"Encoding">>,
                    type |-> "[string,null]", enum |-> Undefined,
                    default |-> Str("a")]

MixedSettings ==
    {NumberEnumSetting, BoolEnumSetting, ListEnumSetting, TypeListSetting}

(* The entries renderElement is given: settingToEntry of a setting under   *)
(* the default alone or with a user value.                                 *)
UserValue(s) ==
    CASE s.key = "files.name" -> Str("b")
      [] s.key = "files.exclude" -> Arr(<<"out">>)
      [] OTHER -> ScopeValue(s.key, "user")

RenderableSettings ==
    {BoolSetting, EnumSetting, NumberSetting, TextSetting, ListSetting}

RowEntries ==
    UNION {{SettingToEntry(s, [default |-> s.default, user |-> u,
                               workspace |-> Undefined], USER) :
               u \in {Undefined, UserValue(s)}} : s \in RenderableSettings}
    \cup {SettingToEntry(EnumSetting,
                         [default |-> EnumSetting.default, user |-> Undefined,
                          workspace |-> Str("z")], WORKSPACE)}
    \cup {SettingToEntry(s, [default |-> s.default, user |-> Undefined,
                             workspace |-> Undefined], USER) :
             s \in MixedSettings}

(* A disposable or control created by renderElement. pushed: it was put on *)
(* template.toDispose. render: the renderElement call that created it.     *)
Disposable(kind, entry, render, pushed) ==
    [kind |-> kind, key |-> entry.key, render |-> render, pushed |-> pushed,
     disposed |-> FALSE, checked |-> FALSE, selected |-> 0 - 1,
     enum |-> <<>>, numeric |-> FALSE]

(* Array.prototype.indexOf on a list of strings, 0-based, -1 when absent *)
IndexOf(list, value) ==
    IF value.t = "string" /\ \E i \in 1..Len(list) : list[i] = value.s
    THEN (CHOOSE i \in 1..Len(list) :
             /\ list[i] = value.s
             /\ \A j \in 1..(i - 1) : list[j] # value.s) - 1
    ELSE 0 - 1

(* renderBool *)
RenderBool(entry, render) ==
    << [Disposable("checkbox", entry, render, TRUE)
          EXCEPT !.checked = (entry.value = Bool(TRUE))] >>

(* renderEnum *)
RenderEnum(entry, render) ==
    << [Disposable("selectBox", entry, render, TRUE)
          EXCEPT !.selected = IndexOf(entry.enum, entry.value),
                 !.enum = entry.enum],
       Disposable("selectBoxStyler", entry, render, TRUE),
       [Disposable("selectListener", entry, render, TRUE)
          EXCEPT !.enum = entry.enum] >>

(* renderText; numeric: the onChange given parses the text as an integer *)
RenderText(entry, render, numeric) ==
    << Disposable("inputBoxStyler", entry, render, TRUE),
       Disposable("inputBox", entry, render, TRUE),
       [Disposable("inputListener", entry, render, TRUE)
          EXCEPT !.numeric = numeric] >>

(* Mutant: a select box for every entry with an enum, whatever its type. *)
RenderValueEnumAnyType(entry, render) ==
    IF entry.enum # Undefined THEN RenderEnum(entry, render)
    ELSE IF entry.type = "boolean" THEN RenderBool(entry, render)
    ELSE IF entry.type = "string" THEN RenderText(entry, render, FALSE)
    ELSE IF entry.type = "number" THEN RenderText(entry, render, TRUE)
    ELSE <<>>

(* renderValue: the value control chosen by entry.type and entry.enum *)
RenderValue(entry, render) ==
    IF entry.type = "string" /\ entry.enum # Undefined
    THEN RenderEnum(entry, render)
    ELSE IF entry.type = "boolean" THEN RenderBool(entry, render)
    ELSE IF entry.type = "string" THEN RenderText(entry, render, FALSE)
    ELSE IF entry.type = "number" THEN RenderText(entry, render, TRUE)
    ELSE <<>>

(* The text renderValue leaves in the value element: emptied first, and    *)
(* set in the last branch, where no control is built.                      *)
EditInSettingsJson == "Edit in settings.json!"

RenderValueText(entry) ==
    IF Len(RenderValue(entry, 0)) = 0 THEN EditInSettingsJson ELSE ""

(* The reset button of renderElement: its styler is attached and not kept, *)
(* its click listener and the button are pushed.                           *)
RenderResetButton(entry, render) ==
    << Disposable("buttonStyler", entry, render, FALSE),
       Disposable("buttonClickListener", entry, render, TRUE),
       Disposable("resetButton", entry, render, TRUE) >>

(* What renderElement creates, in order of creation. *)
RenderElementCreates(entry, render) ==
    RenderValue(entry, render) \o RenderResetButton(entry, render)

PushedIndices(created, offset) ==
    LET idx == [i \in 1..Len(created) |-> offset + i]
        Pushed(i) == created[i - offset].pushed
    IN  SelectSeq(idx, Pushed)

(* renderTemplate: a template with an empty toDispose *)
RenderTemplate ==
    /\ template.state = "none"
    /\ template' = [NoTemplate EXCEPT !.state = "live"]
    /\ ClearLog
    /\ UNCHANGED <<disposables, editorVars, telemetryVars, delegateVars>>

(* renderElement(entry, index, template) on a live template *)
RenderElement(entry) ==
    /\ template.state = "live"
    /\ template.renders < MaxRenders
    /\ LET render == template.renders + 1
           created == RenderElementCreates(entry, render)
       IN  /\ disposables' = disposables \o created
           /\ template' = [template EXCEPT
                  !.renders = render,
                  !.entry = entry,
                  !.valueText = RenderValueText(entry),
                  !.toDispose = @ \o PushedIndices(created, Len(disposables))]
    /\ ClearLog
    /\ UNCHANGED <<editorVars, telemetryVars, delegateVars>>

(* lifecycle.dispose(array): every element of the array is disposed *)
DisposeAll(all, indices) ==
    [i \in 1..Len(all) |->
        IF \E n \in 1..Len(indices) : indices[n] = i
        THEN [all[i] EXCEPT !.disposed = TRUE] ELSE all[i]]

(* disposeTemplate *)
DisposeTemplate ==
    /\ template.state = "live"
    /\ disposables' = DisposeAll(disposables, template.toDispose)
    /\ template' = [template EXCEPT !.state = "disposed"]
    /\ ClearLog
    /\ UNCHANGED <<editorVars, telemetryVars, delegateVars>>

----------------------------------------------------------------------------
(* The edit callback: SettingsEditor2.onDidChangeSetting *)

StoreErrors == {"EPERM"}

StoreOutcomes ==
    {[status |-> "fulfilled"]}
    \cup {[status |-> "rejected", error |-> e] : e \in StoreErrors}

(* Mutant: the write always goes to the user scope. *)
UpdateValueCallsUserScope(key, value, target) ==
    << [key |-> key, value |-> value, target |-> USER] >>

(* The updateValue calls onDidChangeSetting issues. *)
UpdateValueCalls(key, value, target) ==
    << [key |-> key, value |-> value, target |-> target] >>

(* Mutant: the rejection is reported through the notification service. *)
OnUpdateRejectedNotifies(key, error) ==
    [caught |-> TRUE, notifications |-> << [key |-> key, error |-> error] >>]

(* The rejection handler given to then(): it takes the error and does      *)
(* nothing.                                                                *)
OnUpdateRejected(key, error) ==
    [caught |-> TRUE, notifications |-> <<>>]

(* _onDidChangeSetting.fire({key, value}) with the listener of createList: *)
(* onDidChangeSetting(key, value), and the store settling the call.        *)
FireChange(key, value, settled) ==
    /\ fired' = << [key |-> key, value |-> value] >>
    /\ storeCalls' = UpdateValueCalls(key, value, settingsTarget)
    /\ IF settled.status = "rejected"
       THEN LET handled == OnUpdateRejected(key, settled.error)
            IN  /\ outcome' = [status |-> "rejected", error |-> settled.error,
                               caught |-> handled.caught]
                /\ notifications' = handled.notifications
       ELSE /\ outcome' = [status |-> "fulfilled"]
            /\ notifications' = <<>>

----------------------------------------------------------------------------
(* Gestures on the controls of the template *)

(* A control takes gestures while it is in the value element (the latest   *)
(* renderElement emptied it of earlier controls) and is not disposed.      *)
Attached(i) ==
    /\ disposables[i].render = template.renders
    /\ ~disposables[i].disposed

Listening(kind, render) ==
    \E l \in 1..Len(disposables) :
       /\ disposables[l].kind = kind
       /\ disposables[l].render = render
       /\ ~disposables[l].disposed

(* Typed text: a sequence of characters *)
Text(chars) == [t |-> "string", chars |-> chars]

(* The texts typed: digits, a sign, a leading blank, trailing and leading  *)
(* letters, a fraction, nothing.                                           *)
Texts ==
    { <<>>, <<"7">>, <<"4", "2">>, <<"-", "7">>, <<" ", "7">>,
      <<"7", "a">>, <<"a", "7">>, <<"7", ".", "5">>, <<"a">> }

(* renderBool's onChange: onChange(checkbox.checked) *)
BoolOnChange(checked) == Bool(checked)

(* renderEnum's onDidSelect: onChange(entry.enum[e.index]) *)
EnumOnSelect(enum, index) == Str(enum[index + 1])

(* Mutant: number rows pass the raw text on. *)
TextOnChangeRaw(text, numeric) == Text(text)

(* renderText's onDidChange, wrapped with parseInt for number rows *)
TextOnChange(text, numeric) ==
    IF numeric THEN ParseInt(text) ELSE Text(text)

(* Checkbox click: checked is negated, then onChange runs *)
ToggleCheckbox(i, settled) ==
    /\ disposables[i].kind = "checkbox"
    /\ Attached(i)
    /\ disposables' = [disposables EXCEPT ![i].checked = ~@]
    /\ gesture' = [kind |-> "toggle", control |-> i, arg |-> Undefined]
    /\ FireChange(disposables[i].key, BoolOnChange(~disposables[i].checked),
                  settled)
    /\ UNCHANGED <<template, editorVars, telemetryVars, delegateVars>>

SelectOption(i, index, settled) ==
    /\ disposables[i].kind = "selectBox"
    /\ Attached(i)
    /\ Listening("selectListener", disposables[i].render)
    /\ index \in 0..(Len(disposables[i].enum) - 1)
    /\ disposables' = [disposables EXCEPT ![i].selected = index]
    /\ gesture' = [kind |-> "select", control |-> i, arg |-> Num(index)]
    /\ FireChange(disposables[i].key,
                  EnumOnSelect(disposables[i].enum, index), settled)
    /\ UNCHANGED <<template, editorVars, telemetryVars, delegateVars>>

TypeText(i, text, settled) ==
    /\ disposables[i].kind = "inputListener"
    /\ Attached(i)
    /\ Listening("inputBox", disposables[i].render)
    /\ gesture' = [kind |-> "type", control |-> i, arg |-> Text(text)]
    /\ FireChange(disposables[i].key,
                  TextOnChange(text, disposables[i].numeric), settled)
    /\ UNCHANGED <<template, disposables, editorVars, telemetryVars,
                   delegateVars>>

(* resetButton.onDidClick: the unset value *)
ClickReset(i, settled) ==
    /\ disposables[i].kind = "buttonClickListener"
    /\ Attached(i)
    /\ Listening("resetButton", disposables[i].render)
    /\ gesture' = [kind |-> "click", control |-> i, arg |-> Undefined]
    /\ FireChange(disposables[i].key, Undefined, settled)
    /\ UNCHANGED <<template, disposables, editorVars, telemetryVars,
                   delegateVars>>

NextRenderer ==
    \/ RenderTemplate
    \/ \E entry \in RowEntries : RenderElement(entry)
    \/ DisposeTemplate
    \/ \E target \in Targets : OnDidTargetChange(target)
    \/ \E i \in 1..Len(disposables), settled \in StoreOutcomes :
          ToggleCheckbox(i, settled)
    \/ \E i \in 1..Len(disposables), settled \in StoreOutcomes :
          \E index \in 0..(Len(EnumSetting.enum) - 1) :
             SelectOption(i, index, settled)
    \/ \E i \in 1..Len(disposables), settled \in StoreOutcomes :
          \E text \in Texts : TypeText(i, text, settled)
    \/ \E i \in 1..Len(disposables), settled \in StoreOutcomes :
          ClickReset(i, settled)

SpecRenderer == Init /\ [][NextRenderer]_vars

----------------------------------------------------------------------------
(* Properties of the renderer and the edit callback *)

(* The entry bound to the template by the latest renderElement. *)
BoundEntry == template.entry

(* C2: a handled change event {key, value} issues exactly one updateValue, *)
(* with that key and value and the scope the target widget selects as the  *)
(* event is handled; the reset button's event carries the unset value for  *)
(* the key of the row's entry.                                             *)
C2_OneWriteAtTarget ==
    gesture # Undefined =>
       /\ Len(fired) = 1
       /\ storeCalls = << [key |-> fired[1].key, value |-> fired[1].value,
                           target |-> settingsTarget] >>
       /\ gesture.kind = "click" =>
             /\ storeCalls[1].key = BoundEntry.key
             /\ storeCalls[1].value = Undefined

(* The reset button clicked with the workspace target selected. *)
C2_Witness ==
    /\ gesture # Undefined
    /\ gesture.kind = "click"
    /\ settingsTarget = WORKSPACE
    /\ storeCalls = << [key |-> "editor.eol", value |-> Undefined,
                        target |-> WORKSPACE] >>

Rejected == outcome # Undefined /\ outcome.status = "rejected"

(* C3 as stated: a rejected updateValue raises exactly one notification    *)
(* naming the setting and carrying the error.                              *)
C3_RejectionNotified ==
    Rejected =>
       /\ outcome.caught
       /\ Len(notifications) = 1
       /\ notifications[1].key = storeCalls[1].key
       /\ notifications[1].error = outcome.error

(* C3, amended: a rejected updateValue is caught by the handler given to   *)
(* then() and the view raises no notification.                             *)
C3_RejectionSwallowed ==
    Rejected => outcome.caught /\ notifications = <<>>

C3_Witness ==
    /\ Rejected
    /\ outcome.error = "EPERM"
    /\ Len(storeCalls) = 1
    /\ notifications = <<>>

(* C7 as stated: once the template is disposed, every disposable created   *)
(* for it by a renderElement since its renderTemplate is disposed, and no  *)
(* control of it takes a gesture.                                          *)
C7_AllDisposed ==
    template.state = "disposed" =>
       /\ \A i \in 1..Len(disposables) : disposables[i].disposed
       /\ gesture = Undefined

(* What the code does release: everything but the reset buttons' stylers. *)
C7_AllButButtonStylers ==
    template.state = "disposed" =>
       /\ \A i \in 1..Len(disposables) :
             disposables[i].kind # "buttonStyler" => disposables[i].disposed
       /\ gesture = Undefined

(* The value controls renderValue can build *)
ValueControlKinds == {"checkbox", "selectBox", "inputBox"}

(* The value controls the latest renderElement on the template built *)
ValueControls(tpl, ds) ==
    {i \in 1..Len(ds) :
        ds[i].render = tpl.renders /\ ds[i].kind \in ValueControlKinds}

OneValueControl(tpl, ds, kind) ==
    /\ Cardinality(ValueControls(tpl, ds)) = 1
    /\ \A i \in ValueControls(tpl, ds) : ds[i].kind = kind

SelectBuilt(tpl, ds) ==
    /\ OneValueControl(tpl, ds, "selectBox")
    /\ \A i \in ValueControls(tpl, ds) :
          /\ ds[i].enum = tpl.entry.enum
          /\ ds[i].selected = IndexOf(tpl.entry.enum, tpl.entry.value)
          /\ (\A n \in 1..Len(tpl.entry.enum) :
                 tpl.entry.value # Str(tpl.entry.enum[n]))
             => ds[i].selected = 0 - 1
    /\ tpl.valueText = ""

ToggleBuilt(tpl, ds) ==
    /\ OneValueControl(tpl, ds, "checkbox")
    /\ \A i \in ValueControls(tpl, ds) :
          ds[i].checked = (tpl.entry.value = Bool(TRUE))
    /\ tpl.valueText = ""

TextBuilt(tpl, ds) ==
    /\ OneValueControl(tpl, ds, "inputBox")
    /\ tpl.valueText = ""

PlaceholderOnly(tpl, ds) ==
    /\ ValueControls(tpl, ds) = {}
    /\ tpl.valueText = EditInSettingsJson

(* The claim as stated: the control follows the declared type, and an enum *)
(* on a type other than string leaves the placeholder only.                *)
ControlByTypeAsStated(tpl, ds) ==
    LET e == tpl.entry
    IN  /\ (e.type = "string" /\ e.enum # Undefined) => SelectBuilt(tpl, ds)
        /\ e.type = "boolean" => ToggleBuilt(tpl, ds)
        /\ ((e.type = "string" /\ e.enum = Undefined) \/ e.type = "number")
             => TextBuilt(tpl, ds)
        /\ (e.type \notin {"string", "boolean", "number"}
              \/ (e.enum # Undefined /\ e.type # "string"))
             => PlaceholderOnly(tpl, ds)

(* What renderValue does: an enum counts on a string only; on a boolean or *)
(* a number it is ignored and the control follows the type.                *)
ControlByType(tpl, ds) ==
    LET e == tpl.entry
    IN  /\ (e.type = "string" /\ e.enum # Undefined) => SelectBuilt(tpl, ds)
        /\ e.type = "boolean" => ToggleBuilt(tpl, ds)
        /\ ((e.type = "string" /\ e.enum = Undefined) \/ e.type = "number")
             => TextBuilt(tpl, ds)
        /\ e.type \notin {"string", "boolean", "number"}
             => PlaceholderOnly(tpl, ds)

(* C12 as stated: every renderElement leaves exactly one value control     *)
(* chosen by the declared type (select for a string with an enum, with the *)
(* index of the current value selected or none; toggle for a boolean; text *)
(* for a string without enum or a number), and for any other type, or an   *)
(* enum on a type other than string, no value control but the placeholder. *)
C12_ControlByTypeAsStated ==
    [][template'.renders = template.renders + 1
         => ControlByTypeAsStated(template', disposables')]_vars

(* C12, amended: as above, but an enum on a boolean or a number is ignored *)
(* (toggle, text control); the placeholder alone is left exactly for the   *)
(* types other than string, boolean and number.                            *)
C12_ControlByType ==
    [][template'.renders = template.renders + 1
         => ControlByType(template', disposables')]_vars

(* A number entry with an enum is bound, with a text control. *)
C12_Witness ==
    /\ template.renders > 0
    /\ template.entry.type = "number"
    /\ template.entry.enum # Undefined
    /\ TextBuilt(template, disposables)

(* An enum entry whose value is not in the list is bound: nothing selected *)
C12_WitnessAbsent ==
    /\ template.renders > 0
    /\ template.entry.type = "string"
    /\ template.entry.enum # Undefined
    /\ template.entry.value = Str("z")
    /\ \E i \in ValueControls(template, disposables) :
          /\ disposables[i].render = template.renders
          /\ disposables[i].selected = 0 - 1
          /\ gesture = Undefined

(* A type list entry is bound: the placeholder and no value control *)
C12_WitnessPlaceholder ==
    /\ template.renders > 0
    /\ template.entry.type = "[string,null]"
    /\ PlaceholderOnly(template, disposables)

(* C11 as stated: when renderElement runs again on a used template the    *)
(* disposables of the earlier renderElement are disposed by then, so       *)
(* template.toDispose holds disposables of the latest renderElement only.  *)
C11_OneUpdatePerTemplate ==
    /\ \A n \in 1..Len(template.toDispose) :
          disposables[template.toDispose[n]].render = template.renders
    /\ \A i \in 1..Len(disposables) :
          disposables[i].render < template.renders => disposables[i].disposed

(* What the code does: toDispose grows with every renderElement and        *)
(* nothing is disposed while the template is live.                         *)
C11_Accumulates ==
    template.state = "live" =>
       /\ \A i \in 1..Len(disposables) :
             /\ ~disposables[i].disposed
             /\ disposables[i].pushed <=>
                   \E n \in 1..Len(template.toDispose) :
                      template.toDispose[n] = i
       /\ \A r \in 1..template.renders :
             \E i \in 1..Len(disposables) : disposables[i].render = r

BoundControl == disposables[gesture.control]

(* C8: one gesture on the value control of the row fires exactly one       *)
(* change event with the key of the entry bound to the row and: for a      *)
(* boolean row changed for the first time the negation of the entry's      *)
(* value, for an enum row the option at the selected index, for a string   *)
(* row the text, for a number row parseInt of the text.                    *)
C8_OneEventPerChange ==
    (gesture # Undefined /\ gesture.kind # "click") =>
       /\ Len(fired) = 1
       /\ fired[1].key = BoundEntry.key
       /\ gesture.kind = "toggle" =>
             /\ BoundEntry.type = "boolean"
             /\ fired[1].value = Bool(BoundControl.checked)
             /\ BoundControl.checked # (BoundEntry.value = Bool(TRUE)) =>
                   fired[1].value = Bool(BoundEntry.value # Bool(TRUE))
       /\ gesture.kind = "select" =>
             /\ BoundEntry.type = "string"
             /\ fired[1].value = Str(BoundEntry.enum[gesture.arg.n + 1])
       /\ gesture.kind = "type" =>
             \/ /\ BoundEntry.type = "string"
                /\ fired[1].value = gesture.arg
             \/ /\ BoundEntry.type = "number"
                /\ fired[1].value = ParseInt(gesture.arg.chars)

(* "-7" typed into a number row: one event with the number -7. *)
C8_Witness ==
    /\ gesture # Undefined
    /\ gesture.kind = "type"
    /\ gesture.arg = Text(<<"-", "7">>)
    /\ BoundEntry.type = "number"
    /\ fired = << [key |-> "files.max", value |-> Num(0 - 7)] >>

(* A boolean row shown checked, clicked once: one event with false. *)
C8_WitnessToggle ==
    /\ gesture # Undefined
    /\ gesture.kind = "toggle"
    /\ BoundEntry.value = Bool(TRUE)
    /\ fired = << [key |-> "editor.wrap", value |-> Bool(FALSE)] >>

----------------------------------------------------------------------------
(* Telemetry: reportFilteringUsed and getLatestEmptyFiltersForTelemetry.   *)
(* A buffered string is its place in the buffer and its length.            *)

TelemetryCap == 8192

StringLengths == {0, 1, 4096, 4097, 8192, 8193}

Buffers ==
    UNION {{[i \in 1..n |-> [text |-> i, length |-> lens[i]]] :
               lens \in [1..n -> StringLengths]} : n \in 0..MaxBuffer}

Filters == {"", "wrap"}

(* Mutant: each string is held against the cap on its own. *)
GetLatestEmptyFiltersPerString(buffer, cumulativeSize) ==
    LET Fits(f) == f.length <= TelemetryCap
    IN  SelectSeq(buffer, Fits)

(* getLatestEmptyFiltersForTelemetry: filter() with the running total,     *)
(* which every string is added to, kept or not.                            *)
RECURSIVE GetLatestEmptyFilters(_, _)
GetLatestEmptyFilters(buffer, cumulativeSize) ==
    IF buffer = <<>> THEN <<>>
    ELSE LET size == cumulativeSize + Head(buffer).length
         IN  (IF size <= TelemetryCap THEN <<Head(buffer)>> ELSE <<>>)
             \o GetLatestEmptyFilters(Tail(buffer), size)

(* reportFilteringUsed(filter) *)
ReportFilteringUsed(filter) ==
    /\ lastReport' = [filter |-> filter, buffered |-> latestEmptyFilters]
    /\ IF filter # ""
       THEN /\ telemetryLog' =
                  << [filter |-> filter,
                      emptyFilters |->
                         GetLatestEmptyFilters(latestEmptyFilters, 0)] >>
            /\ latestEmptyFilters' = <<>>
       ELSE /\ telemetryLog' = <<>>
            /\ UNCHANGED latestEmptyFilters
    /\ UNCHANGED <<editorVars, rendererVars, delegateVars>>

InitBuffered ==
    /\ InitEditor
    /\ InitRenderer
    /\ InitDelegate
    /\ latestEmptyFilters \in Buffers
    /\ telemetryLog = <<>>
    /\ lastReport = Undefined

NextTelemetry == \E filter \in Filters : ReportFilteringUsed(filter)

SpecTelemetry == InitBuffered /\ [][NextTelemetry]_vars

RECURSIVE TotalLength(_)
TotalLength(strings) ==
    IF strings = <<>> THEN 0
    ELSE Head(strings).length + TotalLength(Tail(strings))

(* C9: a report with an empty filter logs nothing and keeps the buffer; a  *)
(* report with a filter logs once, with the longest prefix of the buffer   *)
(* whose lengths sum to at most 8192, and leaves the buffer empty.         *)
C9_CappedPrefix ==
    lastReport # Undefined =>
       IF lastReport.filter = ""
       THEN telemetryLog = <<>> /\ latestEmptyFilters = lastReport.buffered
       ELSE /\ Len(telemetryLog) = 1
            /\ telemetryLog[1].filter = lastReport.filter
            /\ latestEmptyFilters = <<>>
            /\ LET sent == telemetryLog[1].emptyFilters
                   had == lastReport.buffered
               IN  /\ Len(sent) <= Len(had)
                   /\ sent = SubSeq(had, 1, Len(sent))
                   /\ TotalLength(sent) <= 8192
                   /\ Len(sent) < Len(had) =>
                         TotalLength(SubSeq(had, 1, Len(sent) + 1)) > 8192

(* 4096 + 4096 fit exactly; a third string of one character is left out. *)
C9_Witness ==
    /\ lastReport # Undefined
    /\ lastReport.filter = "wrap"
    /\ Len(lastReport.buffered) = 3
    /\ lastReport.buffered[3].length = 1
    /\ Len(telemetryLog) = 1
    /\ Len(telemetryLog[1].emptyFilters) = 2
    /\ TotalLength(telemetryLog[1].emptyFilters) = 8192

----------------------------------------------------------------------------
(* SettingItemDelegate.getHeight: the height of a list element. A setting  *)
(* row is rendered into the offset helper with a template of its own, its  *)
(* height is read, and the helper is emptied of its nodes.                 *)

(* The elements the settings list asks the height of *)
MeasuredEntries ==
    RowEntries
    \cup {GroupTitleEntry(SettingsGroups[g]) : g \in 1..Len(SettingsGroups)}

(* template.parent.offsetHeight: what the layout reports for the row *)
RowHeights == {22, 40}

(* The template renderTemplate(offsetHelper) returns, after                *)
(* renderElement(entry, 0, template) on it.                                *)
MeasureTemplate(entry, created) ==
    [NoTemplate EXCEPT !.state = "live",
                       !.renders = 1,
                       !.entry = entry,
                       !.valueText = RenderValueText(entry),
                       !.toDispose = PushedIndices(created, 0)]

(* One getHeight call: the height returned, the template it rendered, the  *)
(* disposables that render created, and the child nodes left in the        *)
(* offset helper.                                                          *)
Measure(entry, offsetHeight) ==
    IF entry.templateId = SETTINGS_GROUP_ENTRY_TEMPLATE_ID
    THEN [entry |-> entry, height |-> 60, template |-> NoTemplate,
          created |-> <<>>, helperNodes |-> 0]
    ELSE IF entry.templateId = SETTINGS_ENTRY_TEMPLATE_ID
    THEN LET created == RenderElementCreates(entry, 1)
         IN  [entry |-> entry, height |-> offsetHeight,
              template |-> MeasureTemplate(entry, created),
              created |-> created, helperNodes |-> 0]
    ELSE [entry |-> entry, height |-> 0, template |-> NoTemplate,
          created |-> <<>>, helperNodes |-> 0]

GetHeight(entry, offsetHeight) ==
    /\ Len(measured) < MaxMeasures
    /\ measured' = Append(measured, Measure(entry, offsetHeight))
    /\ ClearLog
    /\ UNCHANGED <<template, disposables, editorVars, telemetryVars>>

NextMeasure ==
    \E entry \in MeasuredEntries, offsetHeight \in RowHeights :
       GetHeight(entry, offsetHeight)

SpecMeasure == Init /\ [][NextMeasure]_vars

(* The disposables of the measurements that are not disposed *)
RECURSIVE Undisposed(_)
Undisposed(ms) ==
    IF ms = <<>> THEN 0
    ELSE Cardinality({i \in 1..Len(Head(ms).created) :
                         ~Head(ms).created[i].disposed})
         + Undisposed(Tail(ms))

(* C13 as stated: after getHeight returns, every control, listener and     *)
(* styler its measurement render created is disposed, so the undisposed    *)
(* ones do not grow with the number of measurements.                       *)
C13_MeasureLeavesNothing ==
    /\ \A m \in 1..Len(measured) :
          \A i \in 1..Len(measured[m].created) :
             measured[m].created[i].disposed
    /\ Undisposed(measured) = 0

(* What the code does: the helper is emptied of nodes, and everything the  *)
(* render of a row created stays undisposed, the reset button and its      *)
(* listener and styler at the least.                                       *)
C13_MeasureLeavesAll ==
    /\ \A m \in 1..Len(measured) :
          /\ measured[m].helperNodes = 0
          /\ \A i \in 1..Len(measured[m].created) :
                ~measured[m].created[i].disposed
          /\ IsRow(measured[m].entry) =>
                Len(measured[m].created)
                   >= Len(RenderResetButton(measured[m].entry, 1))
    /\ Undisposed(measured)
          >= Cardinality({m \in 1..Len(measured) : IsRow(measured[m].entry)})

====
